---- MODULE Spec2Model ----
(***************************************************************************)
(* i3_tree_manager: the event aggregator (src/src/event.rs), the selection *)
(* state machine and the control loop (src/src/main.rs).                   *)
(*                                                                         *)
(* Three specifications share the variables below:                         *)
(*   SpecEvents  the Events object used by an arbitrary client thread:     *)
(*               the three producer threads at the granularity of their    *)
(*               channel and atomic operations, and the client calling     *)
(*               next / disable_exit_key / enable_exit_key or dropping it. *)
(*   SpecState   the State object under arbitrary calls of its methods.    *)
(*   Spec        the program: main's loop fed by the three producers.      *)
(* A specification keeps the variables it does not use at their initial    *)
(* values.                                                                 *)
(***************************************************************************)
EXTENDS Integers, Sequences, FiniteSets, Bags, TLC

VARIABLES
    chan,             \* the mpsc channel's buffer (event.rs:49)
    rx_alive,         \* the Receiver (Events.rx) has not been dropped
    ignore_exit_key,  \* Events.ignore_exit_key (event.rs:50)
    input_pc,         \* input thread: "read", "send", "check", or how it ended
    input_key,        \* input thread: the key it holds (`key`, event.rs:57)
    flag_at_read,     \* history: ignore_exit_key when that key was read
    tick_pc,          \* tick thread: "send", "sleep", "done"
    i3_pc,            \* i3 thread: "listen", "send"
    pushed,           \* history: the events sent successfully, in send order
    received,         \* history: the events next() returned, in return order
    ntaken,           \* history: how many events the producers have taken up
    failed,           \* history: the sends of each producer that returned Err
    node_tree,        \* State.node_tree
    node_ids,         \* State.node_ids
    selected,         \* State.selected
    mode,             \* State.mode
    command,          \* the commands the last step gave to run_command
    op,               \* the State method called last (SpecState, SpecRender)
    rows,             \* the list items Renderer::render built last
    main_pc           \* main: "idle" (not started), "render", "next", or how
                      \* it ended: "done", "failed", "panicked"

vars ==
    << chan, rx_alive, ignore_exit_key, input_pc, input_key, flag_at_read,
       tick_pc, i3_pc, pushed, received, ntaken, failed,
       node_tree, node_ids, selected, mode, command, op, rows, main_pc >>

events_vars ==
    << chan, rx_alive, ignore_exit_key, input_pc, input_key, flag_at_read,
       tick_pc, i3_pc, pushed, received, ntaken, failed >>

state_vars ==
    << node_tree, node_ids, selected, mode, command, op, rows, main_pc >>

----------------------------------------------------------------------------
(* Bounds of the model.                                                    *)

MaxEvents == 4    \* keys, ticks and notifications the threads take up while
                  \* the Receiver lives (SpecEvents)
MaxFailed == 2    \* failed sends of the i3 thread that are followed (SpecEvents)

----------------------------------------------------------------------------
(* Events: event.rs                                                        *)

NoKey == "-"

\* Event<Key>: Input(key), Tick, I3
Input(k) == [kind |-> "Input", key |-> k]
Tick == [kind |-> "Tick", key |-> NoKey]
I3 == [kind |-> "I3", key |-> NoKey]

\* (mutant of exit_key: the input thread ends on Esc)
exit_key_esc == "Esc"

\* Config::default().exit_key
exit_key == "q"

\* the keys typed in SpecEvents: the exit key and another one
EventsKeys == {exit_key, "Down"}

\* (mutant of send: the event goes to the front)
send_front(ch, e) == <<e>> \o ch

\* tx.send(e) on a channel whose receiver is alive: the event goes to the back
send(ch, e) == Append(ch, e)

\* (mutant of recv: the front event is returned and stays buffered)
recv_peek(ch) == [event |-> Head(ch), rest |-> ch]

\* rx.recv() on a non-empty channel: the front event, and what stays buffered
recv(ch) == [event |-> Head(ch), rest |-> Tail(ch)]

\* (mutants of exit_on_key: the flag read the wrong way round; the flag
\* not read at all)
exit_on_key_inverted(ignore, key) == ignore /\ key = exit_key
exit_on_key_unconditional(ignore, key) == key = exit_key

\* event.rs:62: the input thread returns after forwarding this key
exit_on_key(ignore, key) == ~ignore /\ key = exit_key

EventsInit ==
    /\ chan = << >>
    /\ rx_alive = TRUE
    /\ ignore_exit_key = FALSE
    /\ input_pc = "read"
    /\ input_key = NoKey
    /\ flag_at_read = FALSE
    /\ tick_pc = "send"
    /\ i3_pc = "listen"
    /\ pushed = << >>
    /\ received = << >>
    /\ ntaken = 0
    /\ failed = [input |-> 0, tick |-> 0, i3 |-> 0]

\* input thread, event.rs:56-57: stdin.keys() yields Ok(key)
InputRead ==
    /\ input_pc = "read"
    /\ ntaken < MaxEvents
    /\ \E k \in EventsKeys : input_key' = k
    /\ flag_at_read' = ignore_exit_key
    /\ input_pc' = "send"
    /\ ntaken' = ntaken + 1
    /\ UNCHANGED << chan, rx_alive, ignore_exit_key, tick_pc, i3_pc, pushed,
                    received, failed >>
    /\ UNCHANGED state_vars

\* input thread, event.rs:56-57: stdin.keys() yields Err: the event is
\* skipped, nothing changes
InputReadErr ==
    /\ input_pc = "read"
    /\ UNCHANGED events_vars
    /\ UNCHANGED state_vars

\* input thread, event.rs:56 and 66: stdin.keys() ends, the loop is left
InputEof ==
    /\ input_pc = "read"
    /\ input_pc' = "eof"
    /\ UNCHANGED << chan, rx_alive, ignore_exit_key, input_key, flag_at_read,
                    tick_pc, i3_pc, pushed, received, ntaken, failed >>
    /\ UNCHANGED state_vars

\* input thread, event.rs:58-61: tx.send(Event::Input(key)), return on Err
InputSend ==
    /\ input_pc = "send"
    /\ IF rx_alive
       THEN /\ chan' = send(chan, Input(input_key))
            /\ pushed' = Append(pushed, Input(input_key))
            /\ input_pc' = "check"
            /\ UNCHANGED failed
       ELSE /\ input_pc' = "failed"
            /\ failed' = [failed EXCEPT !.input = @ + 1]
            /\ UNCHANGED << chan, pushed >>
    /\ UNCHANGED << rx_alive, ignore_exit_key, input_key, flag_at_read, tick_pc,
                    i3_pc, received, ntaken >>
    /\ UNCHANGED state_vars

\* input thread, event.rs:62-64: load the flag, return on the exit key;
\* otherwise the iteration ends and `key` goes out of scope
InputCheck ==
    /\ input_pc = "check"
    /\ input_pc' = IF exit_on_key(ignore_exit_key, input_key)
                   THEN "exited" ELSE "read"
    /\ input_key' = NoKey
    /\ flag_at_read' = FALSE
    /\ UNCHANGED << chan, rx_alive, ignore_exit_key, tick_pc, i3_pc, pushed,
                    received, ntaken, failed >>
    /\ UNCHANGED state_vars

\* tick thread, event.rs:71-74: tx.send(Event::Tick), break on Err
TickSend ==
    /\ tick_pc = "send"
    /\ IF rx_alive
       THEN /\ ntaken < MaxEvents
            /\ chan' = send(chan, Tick)
            /\ pushed' = Append(pushed, Tick)
            /\ ntaken' = ntaken + 1
            /\ tick_pc' = "sleep"
            /\ UNCHANGED failed
       ELSE /\ tick_pc' = "done"
            /\ failed' = [failed EXCEPT !.tick = @ + 1]
            /\ UNCHANGED << chan, pushed, ntaken >>
    /\ UNCHANGED << rx_alive, ignore_exit_key, input_pc, input_key,
                    flag_at_read, i3_pc, received >>
    /\ UNCHANGED state_vars

\* tick thread, event.rs:75: thread::sleep(config.tick_rate) returns
TickSleep ==
    /\ tick_pc = "sleep"
    /\ tick_pc' = "send"
    /\ UNCHANGED << chan, rx_alive, ignore_exit_key, input_pc, input_key,
                    flag_at_read, i3_pc, pushed, received, ntaken, failed >>
    /\ UNCHANGED state_vars

\* i3 thread, event.rs:83-84: the listener yields a notification
I3Listen ==
    /\ i3_pc = "listen"
    /\ IF rx_alive
       THEN ntaken < MaxEvents /\ ntaken' = ntaken + 1
       ELSE failed.i3 < MaxFailed /\ ntaken' = ntaken
    /\ i3_pc' = "send"
    /\ UNCHANGED << chan, rx_alive, ignore_exit_key, input_pc, input_key,
                    flag_at_read, tick_pc, pushed, received, failed >>
    /\ UNCHANGED state_vars

\* i3 thread, event.rs:85-87: tx.send(Event::I3); an Err is printed and the
\* for loop goes on to the next notification
I3Send ==
    /\ i3_pc = "send"
    /\ IF rx_alive
       THEN /\ chan' = send(chan, I3)
            /\ pushed' = Append(pushed, I3)
            /\ UNCHANGED failed
       ELSE /\ failed' = [failed EXCEPT !.i3 = @ + 1]
            /\ UNCHANGED << chan, pushed >>
    /\ i3_pc' = "listen"
    /\ UNCHANGED << rx_alive, ignore_exit_key, input_pc, input_key,
                    flag_at_read, tick_pc, received, ntaken >>
    /\ UNCHANGED state_vars

\* Events::next, event.rs:100-102: rx.recv() blocks while the channel is
\* empty (a sender is alive as long as the i3 thread is)
EventsNext ==
    /\ rx_alive
    /\ chan # << >>
    /\ received' = Append(received, recv(chan).event)
    /\ chan' = recv(chan).rest
    /\ UNCHANGED << rx_alive, ignore_exit_key, input_pc, input_key,
                    flag_at_read, tick_pc, i3_pc, pushed, ntaken,
                    failed >>
    /\ UNCHANGED state_vars

\* Events::disable_exit_key, event.rs:104-106
DisableExitKey ==
    /\ rx_alive
    /\ ~ignore_exit_key
    /\ ignore_exit_key' = TRUE
    /\ UNCHANGED << chan, rx_alive, input_pc, input_key, flag_at_read, tick_pc,
                    i3_pc, pushed, received, ntaken, failed >>
    /\ UNCHANGED state_vars

\* Events::enable_exit_key, event.rs:108-110
EnableExitKey ==
    /\ rx_alive
    /\ ignore_exit_key
    /\ ignore_exit_key' = FALSE
    /\ UNCHANGED << chan, rx_alive, input_pc, input_key, flag_at_read, tick_pc,
                    i3_pc, pushed, received, ntaken, failed >>
    /\ UNCHANGED state_vars

\* the client drops Events: the Receiver goes, and its buffer with it
EventsDrop ==
    /\ rx_alive
    /\ rx_alive' = FALSE
    /\ chan' = << >>
    /\ UNCHANGED << ignore_exit_key, input_pc, input_key, flag_at_read, tick_pc,
                    i3_pc, pushed, received, ntaken, failed >>
    /\ UNCHANGED state_vars

----------------------------------------------------------------------------
(* State: main.rs                                                          *)

\* the container ids of the model
NodeIds == {1, 2, 3}

MaxNodes == 3     \* nodes of a tree given to State's methods (SpecState)

\* i3ipc::reply::Node, as far as main.rs reads it: id and nodes.
\* TreesOfSize(n): the trees of exactly n nodes; ForestsOfSize(n): the
\* sequences of trees of n nodes in all.
RECURSIVE TreesOfSize(_), ForestsOfSize(_)
TreesOfSize(n) ==
    IF n < 1 THEN {}
    ELSE {[id |-> i, nodes |-> f] : i \in NodeIds, f \in ForestsOfSize(n - 1)}
ForestsOfSize(n) ==
    IF n = 0 THEN {<< >>}
    ELSE UNION {{<<t>> \o f : t \in TreesOfSize(k), f \in ForestsOfSize(n - k)} :
                k \in 1..n}

TreesUpTo(n) == UNION {TreesOfSize(k) : k \in 1..n}

\* the trees get_tree may hand to State's methods in SpecState
Trees == TreesUpTo(MaxNodes)

\* (mutant of collect_ids: the children's ids, not their subtrees')
collect_ids_shallow(node) ==
    <<node.id>> \o [i \in 1..Len(node.nodes) |-> node.nodes[i].id]

\* collect_ids, main.rs:27-31: the node's id, then flat_map over its children
RECURSIVE collect_ids(_), flat_map_collect_ids(_)
collect_ids(node) == <<node.id>> \o flat_map_collect_ids(node.nodes)
flat_map_collect_ids(ns) ==
    IF ns = << >> THEN << >>
    ELSE collect_ids(Head(ns)) \o flat_map_collect_ids(Tail(ns))

\* StateMode
ModeNone == [tag |-> "None", id |-> 0]
Move(id) == [tag |-> "Move", id |-> id]

\* Iterator::position on a fresh iterator over ids: what is left of the
\* iterator afterwards (it stops after the first match, or runs out)
RECURSIVE after_position(_, _)
after_position(ids, x) ==
    IF ids = << >> THEN << >>
    ELSE IF Head(ids) = x THEN Tail(ids)
    ELSE after_position(Tail(ids), x)

\* (mutant of select_next: from the last element on to the first)
select_next_wrap(ids, sel) ==
    LET cursor == after_position(ids, sel)
    IN  IF cursor # << >> THEN Head(cursor)
        ELSE IF ids # << >> /\ ids[Len(ids)] = sel THEN Head(ids) ELSE sel

\* State::select_next, main.rs:52-58: the new value of selected
select_next(ids, sel) ==
    LET cursor == after_position(ids, sel)
    IN  IF cursor # << >> THEN Head(cursor) ELSE sel

\* Iterator::rposition over ids: the 0-based index of the last match, -1 for
\* None
RECURSIVE rposition(_, _)
rposition(ids, x) ==
    IF ids = << >> THEN -1
    ELSE IF ids[Len(ids)] = x THEN Len(ids) - 1
    ELSE rposition(SubSeq(ids, 1, Len(ids) - 1), x)

\* (mutant of select_previous: position, the first match, for rposition)
select_previous_first(ids, sel) ==
    LET current == Len(ids) - Len(after_position(ids, sel)) - 1
    IN  IF after_position(ids, sel) = << >> /\ (ids = << >> \/ ids[Len(ids)] # sel)
        THEN sel
        ELSE IF current = 0 THEN sel
        ELSE ids[(current - 1) + 1]

\* State::select_previous, main.rs:60-71: the new value of selected
select_previous(ids, sel) ==
    LET current == rposition(ids, sel)
    IN  IF current = -1 THEN sel
        ELSE IF current = 0 THEN sel
        ELSE ids[(current - 1) + 1]

\* (mutant of move_mode: Move(_) is never left)
move_mode_stuck(m, sel) == Move(sel)

\* State::move_mode, main.rs:73-78: the new value of mode
move_mode(m, sel) ==
    IF m.tag = "None" THEN Move(sel) ELSE ModeNone

\* (mutant of move_container: the direction is not passed on)
move_container_down(sel, direction) ==
    [con_id |-> sel, verb |-> "move", arg |-> "down"]

\* State::move_container, main.rs:80-84: the command given to run_command
move_container(sel, direction) ==
    [con_id |-> sel, verb |-> "move", arg |-> direction]

\* State::split_toggle, main.rs:86-90: the command given to run_command
split_toggle(sel) ==
    [con_id |-> sel, verb |-> "split", arg |-> "toggle"]

Directions == {"down", "up", "left", "right"}

\* the State variables while no State exists
StateIdle ==
    /\ node_tree = [id |-> 0, nodes |-> << >>]
    /\ node_ids = << >>
    /\ selected = 0
    /\ mode = ModeNone
    /\ command = << >>
    /\ op = "none"
    /\ rows = << >>
    /\ main_pc = "idle"

\* State::new, main.rs:34-44, on the tree get_tree returns
StateNew(node) ==
    /\ selected = node.id
    /\ node_ids = collect_ids(node)
    /\ node_tree = node
    /\ mode = ModeNone
    /\ command = << >>
    /\ op = "new"
    /\ rows = << >>

\* the State value the variables hold
state ==
    [node_tree |-> node_tree, node_ids |-> node_ids, selected |-> selected,
     mode |-> mode]

\* (mutant of update_tree: the selection goes back to the new root)
update_tree_reselect(st, node) ==
    [st EXCEPT !.node_ids = collect_ids(node), !.node_tree = node,
               !.selected = node.id]

\* State::update_tree, main.rs:46-50: the State afterwards
update_tree(st, node) ==
    [st EXCEPT !.node_ids = collect_ids(node), !.node_tree = node]

\* State::update_tree on the tree get_tree returns
UpdateTree ==
    /\ \E node \in Trees : \E st \in {update_tree(state, node)} :
          /\ node_ids' = st.node_ids
          /\ node_tree' = st.node_tree
          /\ selected' = st.selected
          /\ mode' = st.mode
    /\ command' = << >>
    /\ op' = "update_tree"
    /\ UNCHANGED << rows, main_pc >>
    /\ UNCHANGED events_vars

SelectNext ==
    /\ selected' = select_next(node_ids, selected)
    /\ command' = << >>
    /\ op' = "select_next"
    /\ UNCHANGED << node_tree, node_ids, mode, rows, main_pc >>
    /\ UNCHANGED events_vars

SelectPrevious ==
    /\ selected' = select_previous(node_ids, selected)
    /\ command' = << >>
    /\ op' = "select_previous"
    /\ UNCHANGED << node_tree, node_ids, mode, rows, main_pc >>
    /\ UNCHANGED events_vars

MoveMode ==
    /\ mode' = move_mode(mode, selected)
    /\ command' = << >>
    /\ op' = "move_mode"
    /\ UNCHANGED << node_tree, node_ids, selected, rows, main_pc >>
    /\ UNCHANGED events_vars

MoveContainer ==
    /\ \E d \in Directions : command' = << move_container(selected, d) >>
    /\ op' = "move_container"
    /\ UNCHANGED << node_tree, node_ids, selected, mode, rows, main_pc >>
    /\ UNCHANGED events_vars

SplitToggle ==
    /\ command' = << split_toggle(selected) >>
    /\ op' = "split_toggle"
    /\ UNCHANGED << node_tree, node_ids, selected, mode, rows, main_pc >>
    /\ UNCHANGED events_vars

----------------------------------------------------------------------------
(* main: main.rs:93-134, with the three threads of Events::new.  main never *)
(* writes ignore_exit_key and holds the Receiver until the process ends, so *)
(* a thread's iteration has one effect the loop can see, its send: the     *)
(* iteration is one step here.                                             *)

MaxLive == 3      \* containers alive at a time in a session (Spec)
MaxPending == 1   \* events waiting in the channel in a session (Spec)

\* the keys main.rs:103-125 tells apart; "x" is any other key
SessionKeys == {"q", "Down", "Up", "m", "s", "Esc", "Left", "Right", "x"}

RECURSIVE node_count(_), forest_count(_)
node_count(node) == 1 + forest_count(node.nodes)
forest_count(ns) ==
    IF ns = << >> THEN 0 ELSE node_count(Head(ns)) + forest_count(Tail(ns))

RECURSIVE id_set(_), forest_id_set(_)
id_set(node) == {node.id} \cup forest_id_set(node.nodes)
forest_id_set(ns) ==
    IF ns = << >> THEN {} ELSE id_set(Head(ns)) \cup forest_id_set(Tail(ns))

\* the container ids of a tree are pairwise distinct
DistinctIds(node) == Cardinality(id_set(node)) = node_count(node)

\* the id of i3's root container
RootId == 1

\* the trees get_tree returns in a session: i3's container ids are unique,
\* and its root container lives as long as i3 does
SessionTrees == {t \in TreesUpTo(MaxLive) : DistinctIds(t) /\ t.id = RootId}

MainRunning == main_pc \in {"render", "next"}

InitMain ==
    /\ EventsInit
    /\ main_pc = "render"
    /\ \E node \in SessionTrees : StateNew(node)

\* input thread, event.rs:56-66: one key read, sent and checked
SessionInput ==
    /\ MainRunning
    /\ input_pc = "read"
    /\ Len(chan) < MaxPending
    /\ \E k \in SessionKeys :
          /\ chan' = send(chan, Input(k))
          /\ input_pc' = IF exit_on_key(ignore_exit_key, k)
                         THEN "exited" ELSE "read"
    /\ UNCHANGED << rx_alive, ignore_exit_key, input_key, flag_at_read, tick_pc,
                    i3_pc, pushed, received, ntaken, failed >>
    /\ UNCHANGED state_vars

\* (mutant of SessionTick: the thread returns after its first tick)
SessionTick_once ==
    /\ MainRunning
    /\ tick_pc = "send"
    /\ Len(chan) < MaxPending
    /\ IF rx_alive
       THEN chan' = send(chan, Tick) /\ tick_pc' = "done"
       ELSE chan' = chan /\ tick_pc' = "done"
    /\ UNCHANGED << rx_alive, ignore_exit_key, input_pc, input_key,
                    flag_at_read, i3_pc, pushed, received, ntaken, failed >>
    /\ UNCHANGED state_vars

\* tick thread, event.rs:69-77: one iteration.  The tick is sent; the thread
\* sleeps and sends again, or breaks when the send failed
SessionTick ==
    /\ MainRunning
    /\ tick_pc = "send"
    /\ Len(chan) < MaxPending
    /\ IF rx_alive
       THEN chan' = send(chan, Tick) /\ tick_pc' = "send"
       ELSE chan' = chan /\ tick_pc' = "done"
    /\ UNCHANGED << rx_alive, ignore_exit_key, input_pc, input_key,
                    flag_at_read, i3_pc, pushed, received, ntaken, failed >>
    /\ UNCHANGED state_vars

\* i3 thread, event.rs:84-88: one notification sent
SessionI3 ==
    /\ MainRunning
    /\ Len(chan) < MaxPending
    /\ chan' = send(chan, I3)
    /\ UNCHANGED << rx_alive, ignore_exit_key, input_pc, input_key,
                    flag_at_read, tick_pc, i3_pc, pushed, received, ntaken,
                    failed >>
    /\ UNCHANGED state_vars

\* main.rs:100: renderer.render(&state)?
MainRender ==
    /\ main_pc = "render"
    /\ \E ok \in BOOLEAN : main_pc' = IF ok THEN "next" ELSE "failed"
    /\ UNCHANGED << node_tree, node_ids, selected, mode, command, op, rows >>
    /\ UNCHANGED events_vars

\* (mutant of key_arm: Down and Up move the selection in Move mode too)
key_arm_select_in_move(m, input) ==
    IF m.tag = "None"
    THEN CASE input = "q" -> [what |-> "break", arg |-> ""]
           [] input = "Down" -> [what |-> "select_next", arg |-> ""]
           [] input = "Up" -> [what |-> "select_previous", arg |-> ""]
           [] input = "m" -> [what |-> "move_mode", arg |-> ""]
           [] input = "s" -> [what |-> "split_toggle", arg |-> ""]
           [] OTHER -> [what |-> "nothing", arg |-> ""]
    ELSE CASE input = "q" -> [what |-> "break", arg |-> ""]
           [] input = "Esc" -> [what |-> "move_mode", arg |-> ""]
           [] input = "Down" -> [what |-> "select_next", arg |-> ""]
           [] input = "Up" -> [what |-> "select_previous", arg |-> ""]
           [] input = "Left" -> [what |-> "move_container", arg |-> "left"]
           [] input = "Right" -> [what |-> "move_container", arg |-> "right"]
           [] input = "s" -> [what |-> "split_toggle", arg |-> ""]
           [] OTHER -> [what |-> "nothing", arg |-> ""]

\* (mutant of key_arm: 'q' is read in mode None only)
key_arm_no_quit_in_move(m, input) ==
    IF m.tag = "None"
    THEN CASE input = "q" -> [what |-> "break", arg |-> ""]
           [] input = "Down" -> [what |-> "select_next", arg |-> ""]
           [] input = "Up" -> [what |-> "select_previous", arg |-> ""]
           [] input = "m" -> [what |-> "move_mode", arg |-> ""]
           [] input = "s" -> [what |-> "split_toggle", arg |-> ""]
           [] OTHER -> [what |-> "nothing", arg |-> ""]
    ELSE CASE input = "Esc" -> [what |-> "move_mode", arg |-> ""]
           [] input = "Down" -> [what |-> "move_container", arg |-> "down"]
           [] input = "Up" -> [what |-> "move_container", arg |-> "up"]
           [] input = "Left" -> [what |-> "move_container", arg |-> "left"]
           [] input = "Right" -> [what |-> "move_container", arg |-> "right"]
           [] input = "s" -> [what |-> "split_toggle", arg |-> ""]
           [] OTHER -> [what |-> "nothing", arg |-> ""]

\* main.rs:103-126: the key's arm, as
\* [what |-> the State method called, arg |-> its direction]
key_arm(m, input) ==
    IF m.tag = "None"
    THEN CASE input = "q" -> [what |-> "break", arg |-> ""]
           [] input = "Down" -> [what |-> "select_next", arg |-> ""]
           [] input = "Up" -> [what |-> "select_previous", arg |-> ""]
           [] input = "m" -> [what |-> "move_mode", arg |-> ""]
           [] input = "s" -> [what |-> "split_toggle", arg |-> ""]
           [] OTHER -> [what |-> "nothing", arg |-> ""]
    ELSE CASE input = "q" -> [what |-> "break", arg |-> ""]
           [] input = "Esc" -> [what |-> "move_mode", arg |-> ""]
           [] input = "Down" -> [what |-> "move_container", arg |-> "down"]
           [] input = "Up" -> [what |-> "move_container", arg |-> "up"]
           [] input = "Left" -> [what |-> "move_container", arg |-> "left"]
           [] input = "Right" -> [what |-> "move_container", arg |-> "right"]
           [] input = "s" -> [what |-> "split_toggle", arg |-> ""]
           [] OTHER -> [what |-> "nothing", arg |-> ""]

\* main.rs:102-131: the arm of the event events.next() returned
event_arm(m, e) ==
    CASE e.kind = "Input" -> key_arm(m, e.key)
      [] e.kind = "I3" -> [what |-> "update_tree", arg |-> ""]
      [] OTHER -> [what |-> "nothing", arg |-> ""]

\* main.rs:102-131: events.next() returns an event and its arm runs.
\* get_tree and run_command may fail, and their unwrap() then panics.
MainNext ==
    /\ main_pc = "next"
    /\ chan # << >>
    /\ chan' = recv(chan).rest
    /\ LET arm == event_arm(mode, recv(chan).event)
       IN  \E ok \in BOOLEAN :
           /\ command' =
                 CASE arm.what = "move_container" ->
                         << move_container(selected, arm.arg) >>
                   [] arm.what = "split_toggle" -> << split_toggle(selected) >>
                   [] OTHER -> << >>
           /\ IF arm.what = "update_tree" /\ ok
              THEN \E node \in SessionTrees :
                   \E st \in {update_tree(state, node)} :
                      /\ node_ids' = st.node_ids
                      /\ node_tree' = st.node_tree
                      /\ selected' = st.selected
                      /\ mode' = st.mode
              ELSE /\ selected' =
                         CASE arm.what = "select_next" ->
                                 select_next(node_ids, selected)
                           [] arm.what = "select_previous" ->
                                 select_previous(node_ids, selected)
                           [] OTHER -> selected
                   /\ mode' = IF arm.what = "move_mode"
                              THEN move_mode(mode, selected) ELSE mode
                   /\ UNCHANGED << node_tree, node_ids >>
           /\ main_pc' =
                 CASE arm.what = "break" -> "done"
                   [] arm.what \in {"update_tree", "move_container",
                                    "split_toggle"} /\ ~ok -> "panicked"
                   [] OTHER -> "render"
    /\ UNCHANGED << op, rows >>
    /\ UNCHANGED << rx_alive, ignore_exit_key, input_pc, input_key,
                    flag_at_read, tick_pc, i3_pc, pushed, received, ntaken,
                    failed >>

----------------------------------------------------------------------------
(* Renderer: ui.rs                                                         *)

MaxRenderNodes == 4   \* nodes of a rendered tree without flags (SpecRender)
MaxFlagged == 2       \* nodes of a rendered tree with flags (SpecRender)

\* Option<T>
None == << >>
Some(x) == << x >>

\* i3ipc::reply::Node, as far as ui.rs reads it in the tree list's rows and
\* styles: id, nodes, focused and urgent.  UiTreesOfSize(n, fl): the trees
\* of exactly n nodes whose (focused, urgent) pairs come from fl.
NodeFlags == [focused : BOOLEAN, urgent : BOOLEAN]
NoFlags == {[focused |-> FALSE, urgent |-> FALSE]}

RECURSIVE UiTreesOfSize(_, _), UiForestsOfSize(_, _)
UiTreesOfSize(n, fl) ==
    IF n < 1 THEN {}
    ELSE {[id |-> i, nodes |-> f, focused |-> x.focused, urgent |-> x.urgent] :
             i \in NodeIds, f \in UiForestsOfSize(n - 1, fl), x \in fl}
UiForestsOfSize(n, fl) ==
    IF n = 0 THEN {<< >>}
    ELSE UNION {{<<t>> \o f : t \in UiTreesOfSize(k, fl),
                              f \in UiForestsOfSize(n - k, fl)} : k \in 1..n}

\* the trees handed to the renderer in SpecRender
RenderTrees ==
    UNION {UiTreesOfSize(k, NoFlags) : k \in 1..MaxRenderNodes}
    \cup UNION {UiTreesOfSize(k, NodeFlags) : k \in 1..MaxFlagged}

\* ui.rs:44-49.  A string is the sequence of its three-character segments;
\* "|  " stands for BRANCH_INDENT (a vertical bar and two spaces), "|--" for
\* BRANCH_GLYPH (tee, dash, dash), "+--" for LEAF_GLYPH (corner, dash, dash).
BRANCH_INDENT == << "|  " >>
LEAF_INDENT == << "   " >>
BRANCH_GLYPH == << "|--" >>
LEAF_GLYPH == << "+--" >>
ROOT_GLYPH == << >>
EMPTY_INDENT == << >>

\* format!("{}{}", a, b)
format2(a, b) == a \o b

\* Context::default, ui.rs:57-65
Context_default ==
    [ancestors_indent |-> EMPTY_INDENT, level |-> "Root", selected_id |-> None]

\* (mutant of descendant_indent: the fills of Branch and Leaf exchanged)
descendant_indent_swapped(context) ==
    LET fill == CASE context.level = "Root" -> EMPTY_INDENT
                  [] context.level = "Branch" -> LEAF_INDENT
                  [] context.level = "Leaf" -> BRANCH_INDENT
    IN  format2(context.ancestors_indent, fill)

\* Context::descendant_indent, ui.rs:74-81
descendant_indent(context) ==
    LET fill == CASE context.level = "Root" -> EMPTY_INDENT
                  [] context.level = "Branch" -> BRANCH_INDENT
                  [] context.level = "Leaf" -> LEAF_INDENT
    IN  format2(context.ancestors_indent, fill)

\* Context::glyph, ui.rs:83-90
glyph(context) ==
    CASE context.level = "Root" -> ROOT_GLYPH
      [] context.level = "Branch" -> BRANCH_GLYPH
      [] context.level = "Leaf" -> LEAF_GLYPH

\* Context::full_entry, ui.rs:92-94
full_entry(context) == format2(context.ancestors_indent, glyph(context))

\* Context::to_leaf, ui.rs:96-102
to_leaf(context) ==
    [ancestors_indent |-> descendant_indent(context), level |-> "Leaf",
     selected_id |-> context.selected_id]

\* Context::to_branch, ui.rs:104-110
to_branch(context) ==
    [ancestors_indent |-> descendant_indent(context), level |-> "Branch",
     selected_id |-> context.selected_id]

\* UiNode::from, ui.rs:31-41, without name, layout and node_type
UiNode_from(node, indentation) ==
    [con_id |-> node.id, focused |-> node.focused, urgent |-> node.urgent,
     indentation |-> indentation]

\* tui::style::Style: Style::default(), Style::bg, Style::add_modifier
Style_default == [bg |-> None, add_modifier |-> {}]
Style_bg(st, color) == [st EXCEPT !.bg = Some(color)]
Style_add_modifier(st, modifier) ==
    [st EXCEPT !.add_modifier = @ \cup {modifier}]

\* tui::widgets::ListItem: ListItem::new, and ListItem::style, which sets the
\* style of the item to the style given
ListItem_new(content) == [content |-> content, style |-> Style_default]
ListItem_style(item, st) == [item EXCEPT !.style = st]

\* (mutant of root_item: the selection is styled before urgent and focused)
root_item_selected_first(node, context) ==
    LET r0 == ListItem_new(UiNode_from(node, full_entry(context)))
        r1 == IF Some(node.id) = context.selected_id
              THEN ListItem_style(r0, Style_add_modifier(Style_default,
                                                         "REVERSED"))
              ELSE r0
        r2 == IF node.urgent
              THEN ListItem_style(r1, Style_bg(Style_default, "LightMagenta"))
              ELSE r1
        r3 == IF node.focused
              THEN ListItem_style(r2, Style_bg(Style_default, "LightGreen"))
              ELSE r2
    IN  r3

\* node_into_ui_list, ui.rs:115-124: the item of the node itself
root_item(node, context) ==
    LET r0 == ListItem_new(UiNode_from(node, full_entry(context)))
        r1 == IF node.urgent
              THEN ListItem_style(r0, Style_bg(Style_default, "LightMagenta"))
              ELSE r0
        r2 == IF node.focused
              THEN ListItem_style(r1, Style_bg(Style_default, "LightGreen"))
              ELSE r1
        r3 == IF Some(node.id) = context.selected_id
              THEN ListItem_style(r2, Style_add_modifier(Style_default,
                                                         "REVERSED"))
              ELSE r2
    IN  r3

RECURSIVE node_into_ui_list(_, _), branches_into_ui_list(_, _)
RECURSIVE node_into_ui_list_leaf_first(_, _)

\* (mutant of node_into_ui_list: the last child is listed before the others)
node_into_ui_list_leaf_first(node, context) ==
    LET n == Len(node.nodes)
    IN  IF n = 0 THEN << root_item(node, context) >>
        ELSE << root_item(node, context) >>
             \o node_into_ui_list(node.nodes[n], to_leaf(context))
             \o branches_into_ui_list(SubSeq(node.nodes, 1, n - 1), context)

\* node_into_ui_list, ui.rs:114-140: the node's item, the lists of all its
\* children but the last under to_branch, the last child's under to_leaf
node_into_ui_list(node, context) ==
    LET n == Len(node.nodes)
    IN  IF n = 0 THEN << root_item(node, context) >>
        ELSE << root_item(node, context) >>
             \o branches_into_ui_list(SubSeq(node.nodes, 1, n - 1), context)
             \o node_into_ui_list(node.nodes[n], to_leaf(context))

\* ui.rs:131-136: the fold over branches
branches_into_ui_list(branches, context) ==
    IF branches = << >> THEN << >>
    ELSE node_into_ui_list(Head(branches), to_branch(context))
         \o branches_into_ui_list(Tail(branches), context)

\* Renderer::render, ui.rs:218-226: the items of the tree widget
tree_items(tree, sel) ==
    node_into_ui_list(tree, [Context_default EXCEPT !.selected_id = Some(sel)])

\* Renderer::render on the State
RendererRender ==
    /\ rows' = tree_items(node_tree, selected)
    /\ op' = "render"
    /\ UNCHANGED << node_tree, node_ids, selected, mode, command, main_pc >>
    /\ UNCHANGED events_vars

----------------------------------------------------------------------------
(* SpecEvents: the Events object and its three threads                     *)

InitEvents == EventsInit /\ StateIdle

NextEvents ==
    \/ InputRead \/ InputReadErr \/ InputEof \/ InputSend \/ InputCheck
    \/ TickSend \/ TickSleep
    \/ I3Listen \/ I3Send
    \/ EventsNext \/ DisableExitKey \/ EnableExitKey \/ EventsDrop

SpecEvents == InitEvents /\ [][NextEvents]_vars

(* SpecState: the State object under arbitrary method calls                *)

InitState ==
    /\ EventsInit
    /\ main_pc = "idle"
    /\ \E node \in Trees : StateNew(node)

NextState ==
    \/ UpdateTree \/ SelectNext \/ SelectPrevious \/ MoveMode
    \/ MoveContainer \/ SplitToggle

SpecState == InitState /\ [][NextState]_vars

(* SpecRender: the renderer on a State of any tree and selection           *)

InitRender ==
    /\ EventsInit
    /\ main_pc = "idle"
    /\ \E node \in RenderTrees, sel \in NodeIds :
          /\ node_tree = node
          /\ node_ids = collect_ids(node)
          /\ selected = sel
    /\ mode = ModeNone
    /\ command = << >>
    /\ op = "new"
    /\ rows = << >>

NextRender == RendererRender

SpecRender == InitRender /\ [][NextRender]_vars

(* Spec: the program                                                      *)

Init == InitMain

Next ==
    \/ SessionInput \/ SessionTick \/ SessionI3
    \/ MainRender \/ MainNext

Spec == Init /\ [][Next]_vars

(* SpecFair: the program with its tick thread and its main thread          *)
(* scheduled: each is an operating-system thread of its own, and the tick  *)
(* thread sleeps tick_rate between two sends                               *)

SpecFair == Spec /\ WF_vars(SessionTick) /\ WF_vars(MainNext)

----------------------------------------------------------------------------
(* Properties                                                              *)

Range(s) == {s[i] : i \in DOMAIN s}

\* the bag of the elements of a sequence
BagOfSeq(s) == [e \in Range(s) |-> Cardinality({i \in DOMAIN s : s[i] = e})]

IsInput(e) == e.kind = "Input"

\* the key events of a sequence of events, in order
KeyEvents(s) == SelectSeq(s, IsInput)

\* C1 (SpecEvents): delivery is exactly-once.  While the Receiver lives,
\* every event pushed so far has either been returned by next() once or is
\* still waiting in the channel once: as bags, received + chan = pushed.  So
\* next() never returns more events than were pushed, and once it has
\* returned as many as were pushed (N + M + K calls) it has returned exactly
\* the multiset pushed, for every interleaving of the three producers.
C1_ExactlyOnce ==
    /\ rx_alive => BagOfSeq(received) (+) BagOfSeq(chan) = BagOfSeq(pushed)
    /\ Len(received) <= Len(pushed)
    /\ Len(received) = Len(pushed) => BagOfSeq(received) = BagOfSeq(pushed)

\* C1 witness: two keys, a tick and a notification were pushed, and next() has
\* returned all of them.
C1_Witness ==
    /\ rx_alive
    /\ chan = << >>
    /\ Len(KeyEvents(pushed)) >= 2
    /\ Tick \in Range(pushed)
    /\ I3 \in Range(pushed)
    /\ Len(received) = Len(pushed)

\* C2 (SpecEvents): delivery is first-come-first-served.  The i-th event
\* next() returns is the i-th event enqueued on the channel, so the events
\* of one producer are returned in their push order.
C2_Fifo ==
    /\ Len(received) <= Len(pushed)
    /\ \A i \in 1..Len(received) : received[i] = pushed[i]
    /\ \A i, j \in 1..Len(KeyEvents(received)) :
          i < j => \E a, b \in 1..Len(pushed) :
                      /\ a < b
                      /\ pushed[a] = KeyEvents(received)[i]
                      /\ pushed[b] = KeyEvents(received)[j]

\* C2 witness: next() has returned two different keys with an event of
\* another producer between them, and the keys came in their push order.
C2_Witness ==
    \E i, j, k \in 1..Len(received) :
        /\ i < j /\ j < k
        /\ IsInput(received[i]) /\ ~IsInput(received[j]) /\ IsInput(received[k])
        /\ received[i].key # received[k].key

\* C3 (SpecEvents): with exit-key handling enabled when the input thread
\* checks the flag, the thread ends right after it has forwarded the exit
\* key (the last key event pushed is the exit key), and once it has ended
\* that way it stays ended and no key event is enqueued any more.
C3_ExitKeyEndsInput ==
    [][ /\ ( /\ input_pc = "check" /\ input_pc' # "check"
             /\ ~ignore_exit_key /\ input_key = exit_key )
           => /\ input_pc' = "exited"
              /\ KeyEvents(pushed) # << >>
              /\ KeyEvents(pushed)[Len(KeyEvents(pushed))] = Input(exit_key)
        /\ input_pc = "exited"
           => /\ input_pc' = "exited"
              /\ KeyEvents(pushed') = KeyEvents(pushed)
              /\ input_key' = input_key ]_vars

\* C3 witness: the input thread has ended on the exit key while more keys
\* were to come, and another producer has pushed an event since.
C3_Witness ==
    /\ input_pc = "exited"
    /\ rx_alive
    /\ ntaken < MaxEvents
    /\ pushed # << >>
    /\ ~IsInput(pushed[Len(pushed)])
    /\ Input(exit_key) \in Range(pushed)

\* C4 as claimed (SpecEvents): if the flag was set when the input thread
\* read the exit key, the thread does not end on that key.
C4_SuppressedAtRead ==
    [][ ( /\ input_pc = "check" /\ input_pc' # "check"
          /\ input_key = exit_key /\ flag_at_read )
        => input_pc' = "read" ]_vars

\* C4 as amended (SpecEvents): if the flag is set when the input thread
\* checks it, after it forwarded the exit key, the thread does not end: the
\* exit key has been pushed and the thread goes back to reading keys.
C4_SuppressedAtCheck ==
    [][ ( /\ input_pc = "check" /\ input_pc' # "check"
          /\ input_key = exit_key /\ ignore_exit_key )
        => /\ input_pc' = "read"
           /\ KeyEvents(pushed) # << >>
           /\ KeyEvents(pushed)[Len(KeyEvents(pushed))] = Input(exit_key) ]_vars

\* C4 witness: under suppression next() has returned the exit key and then
\* a different key, and the input thread is still reading (a thread that
\* had found the flag unset after the exit key would have sent no key more).
C4_Witness ==
    /\ ignore_exit_key
    /\ input_pc = "read"
    /\ \E i, j \in 1..Len(received) :
          /\ i < j
          /\ received[i] = Input(exit_key)
          /\ IsInput(received[j])
          /\ received[j].key # exit_key

\* C5 (SpecEvents): a producer whose send failed has ended and has made no
\* second attempt.
C5_FailedSendEndsProducer ==
    /\ failed.input >= 1 => input_pc = "failed"
    /\ failed.tick >= 1 => tick_pc = "done"
    /\ failed.i3 >= 1 => i3_pc = "done"
    /\ failed.input <= 1 /\ failed.tick <= 1 /\ failed.i3 <= 1

\* 1-based index of the first / last element of ids equal to x, 0 if none
FirstIndex(ids, x) ==
    IF \E i \in DOMAIN ids : ids[i] = x
    THEN CHOOSE i \in DOMAIN ids :
            ids[i] = x /\ \A j \in DOMAIN ids : ids[j] = x => i <= j
    ELSE 0
LastIndex(ids, x) ==
    IF \E i \in DOMAIN ids : ids[i] = x
    THEN CHOOSE i \in DOMAIN ids :
            ids[i] = x /\ \A j \in DOMAIN ids : ids[j] = x => j <= i
    ELSE 0

Occurrences(ids, x) == Cardinality({i \in DOMAIN ids : ids[i] = x})

\* C6 (SpecState): select_next.  With i the index at which selected is
\* found in node_ids (its first occurrence): if it is found and is not the
\* last index, selected becomes node_ids[i + 1]; otherwise selected stays.
\* For a selected that occurs at most once this is the claim word for word:
\* not the last element -> the element after it; last or absent -> no
\* change.  mode, node_tree and node_ids never change.
C6_SelectNext ==
    [][ op' = "select_next" =>
        LET i == FirstIndex(node_ids, selected)
            n == Len(node_ids)
        IN  /\ (i >= 1 /\ i < n) => selected' = node_ids[i + 1]
            /\ (i = 0 \/ i = n) => selected' = selected
            /\ Occurrences(node_ids, selected) <= 1 =>
                  /\ (i >= 1 /\ node_ids[n] # selected)
                        => selected' = node_ids[i + 1]
                  /\ (i = 0 \/ node_ids[n] = selected) => selected' = selected
            /\ UNCHANGED << mode, node_tree, node_ids >> ]_vars

\* C6 witness: select_next has moved the selection from the first to the
\* second of three distinct ids (any other start would not end there).
C6_Witness ==
    /\ op = "select_next"
    /\ Len(node_ids) = 3
    /\ Cardinality(Range(node_ids)) = 3
    /\ selected = node_ids[2]

\* C7 (SpecState): select_previous.  With i the last index (0-based) at
\* which selected occurs in node_ids: if i > 0, selected becomes the element
\* before that index; if i = 0 or selected does not occur, nothing changes.
\* mode, node_tree and node_ids never change.
C7_SelectPrevious ==
    [][ op' = "select_previous" =>
        LET last == LastIndex(node_ids, selected) - 1
        IN  /\ last > 0 => selected' = node_ids[(last - 1) + 1]
            /\ last <= 0 => selected' = selected
            /\ UNCHANGED << mode, node_tree, node_ids >> ]_vars

\* C7 witness: select_previous has run on <<1, 2, 1>> and left 2 selected,
\* which it does only from 1, whose last index is 2 and first index is 0.
C7_Witness ==
    /\ op = "select_previous"
    /\ node_ids = << 1, 2, 1 >>
    /\ selected = 2

\* C8 (SpecState): move_mode.  From None it yields Move(selected), from
\* Move(_) it yields None, and applied again to the result of a call from
\* None it yields None again; selected, node_tree and node_ids never change.
C8_MoveModeToggles ==
    [][ op' = "move_mode" =>
        /\ mode = ModeNone =>
              /\ mode' = Move(selected)
              /\ move_mode(mode', selected') = ModeNone
        /\ mode.tag = "Move" => mode' = ModeNone
        /\ UNCHANGED << selected, node_tree, node_ids >> ]_vars

\* C8 witness: move_mode has just left Move mode.
C8_Witness ==
    /\ op = "move_mode"
    /\ mode = ModeNone
    /\ Len(node_ids) > 1

\* C9 (Spec): while main runs, selected is one of node_ids.
C9_SelectedInTree ==
    main_pc \in {"render", "next", "done"} => selected \in Range(node_ids)

\* the nodes of a tree
RECURSIVE nodes_of(_), forest_nodes_of(_)
nodes_of(node) == {node} \cup forest_nodes_of(node.nodes)
forest_nodes_of(ns) ==
    IF ns = << >> THEN {}
    ELSE nodes_of(Head(ns)) \cup forest_nodes_of(Tail(ns))

\* ids lists tree in pre-order (ids pairwise distinct): each subtree fills a
\* run of consecutive places that starts with its root, and the runs of a
\* node's children follow one another left to right.
IsPreOrder(tree, ids) ==
    \A n \in nodes_of(tree) :
        LET at == FirstIndex(ids, n.id)
        IN  /\ at >= 1
            /\ {FirstIndex(ids, x) : x \in id_set(n)} =
                  at .. (at + node_count(n) - 1)
            /\ \A k \in 1..Len(n.nodes) :
                  FirstIndex(ids, n.nodes[k].id) =
                      at + 1 + forest_count(SubSeq(n.nodes, 1, k - 1))

\* C10 (SpecState): after State::new and after every update_tree, node_ids
\* has as many elements as node_tree has nodes, starts with the root's id
\* and holds exactly the ids of node_tree; when those ids are pairwise
\* distinct, node_ids holds none twice and is the pre-order of node_tree.
C10_PreOrder ==
    /\ Len(node_ids) = node_count(node_tree)
    /\ node_ids[1] = node_tree.id
    /\ Range(node_ids) = id_set(node_tree)
    /\ DistinctIds(node_tree) =>
          /\ Cardinality(Range(node_ids)) = Len(node_ids)
          /\ IsPreOrder(node_tree, node_ids)

\* C10 witness: update_tree has put in a tree of three distinct ids whose
\* root has two children, and node_ids lists the root, the left child, the
\* right child.
C10_Witness ==
    /\ op = "update_tree"
    /\ DistinctIds(node_tree)
    /\ node_count(node_tree) = 3
    /\ Len(node_tree.nodes) = 2
    /\ node_ids = << node_tree.id, node_tree.nodes[1].id, node_tree.nodes[2].id >>


\* C11: after a render the list has one row per node of the tree, in
\* pre-order: as many rows as the tree has nodes, and the i-th row belongs to
\* the i-th id of node_ids
C11_RowPerNode ==
    op = "render" =>
        /\ Len(rows) = node_count(node_tree)
        /\ Len(rows) = Len(node_ids)
        /\ \A i \in 1..Len(rows) : rows[i].content.con_id = node_ids[i]

\* a tree of four nodes was rendered whose first child has a child of its
\* own, with another id than the root's last child
C11_Witness ==
    /\ op = "render"
    /\ Len(rows) = 4
    /\ Len(node_tree.nodes) = 2
    /\ Len(node_tree.nodes[1].nodes) = 1
    /\ rows[3].content.con_id # rows[4].content.con_id

\* the mark of the selection on a list item: Modifier::REVERSED
Highlighted(item) == "REVERSED" \in item.style.add_modifier

\* C12: after a render, for every tree and every selected, exactly the rows
\* of the nodes whose id equals selected are highlighted
C12_HighlightSelected ==
    op = "render" =>
        /\ Len(rows) = Len(node_ids)
        /\ \A i \in 1..Len(rows) : Highlighted(rows[i]) <=> node_ids[i] = selected

\* the tree 1 -> [2, 3] was rendered with selected = 2: only the second row
\* is highlighted
C12_Witness ==
    /\ op = "render"
    /\ node_ids = <<1, 2, 3>>
    /\ Len(node_tree.nodes) = 2
    /\ selected = 2
    /\ {i \in 1..Len(rows) : Highlighted(rows[i])} = {2}

\* a step of the control loop that takes the event at the head of the
\* channel and runs its arm
LoopTakes(e) == main_pc = "next" /\ main_pc' # "next" /\ chan # << >> /\ Head(chan) = e

\* C13: in either mode, when the loop takes KeyPress('q') it ends with
\* success, changing neither the selection nor the mode nor the tree and
\* issuing no command; and once it has ended nothing is dispatched any more
C13_QuitOnQ ==
    [][/\ LoopTakes(Input("q")) =>
              /\ main_pc' = "done"
              /\ UNCHANGED << selected, mode, node_tree, node_ids >>
              /\ command' = << >>
       /\ main_pc = "done" => UNCHANGED vars]_vars

\* the loop has ended on 'q' while in Move mode
C13_Witness == main_pc = "done" /\ mode.tag = "Move"

\* the paths (sequences of child indexes from the root) of the nodes of a
\* tree, in pre-order
RECURSIVE PathsFrom(_, _), ForestPathsFrom(_, _, _)
PathsFrom(node, p) == << p >> \o ForestPathsFrom(node.nodes, p, 1)
ForestPathsFrom(ns, p, k) ==
    IF k > Len(ns) THEN << >>
    ELSE PathsFrom(ns[k], Append(p, k)) \o ForestPathsFrom(ns, p, k + 1)

\* the node at the end of a path
RECURSIVE NodeAt(_, _)
NodeAt(node, p) ==
    IF p = << >> THEN node ELSE NodeAt(node.nodes[Head(p)], Tail(p))

\* the node at depth j of path p is the last child of its parent
LastChildAt(tree, p, j) ==
    p[j] = Len(NodeAt(tree, SubSeq(p, 1, j - 1)).nodes)

\* the prefix the layout rule gives the node at path p: one segment per
\* level below the root; the last is the node's own glyph, the others are
\* the fills of its proper ancestors below the root
PrefixByRule(tree, p) ==
    [j \in 1..Len(p) |->
        IF j = Len(p)
        THEN IF LastChildAt(tree, p, j) THEN "+--" ELSE "|--"
        ELSE IF LastChildAt(tree, p, j) THEN "   " ELSE "|  "]

\* C14: after a render, the prefix of a node at depth d is d three-character
\* segments: the last is the branch glyph when the node is not its parent's
\* last child and the leaf glyph when it is, and the segment of each proper
\* ancestor below the root is the bar fill when that ancestor is not a last
\* child and blanks when it is; the root's prefix is empty
C14_Prefixes ==
    op = "render" =>
        LET paths == PathsFrom(node_tree, << >>)
        IN  /\ Len(rows) = Len(paths)
            /\ \A i \in 1..Len(rows) :
                  rows[i].content.indentation = PrefixByRule(node_tree, paths[i])

\* a root with three children was rendered: their prefixes are the branch
\* glyph, the branch glyph and the leaf glyph
C14_Witness ==
    /\ op = "render"
    /\ Len(node_tree.nodes) = 3
    /\ Len(rows) = 4
    /\ rows[1].content.indentation = << >>
    /\ rows[2].content.indentation = << "|--" >>
    /\ rows[3].content.indentation = << "|--" >>
    /\ rows[4].content.indentation = << "+--" >>

\* C15: the step that takes an ExternalTreeChanged event leaves selected and
\* mode as they were and issues no command; when get_tree answers, node_tree
\* is a snapshot of the provider and node_ids its ids in pre-order, also when
\* that snapshot does not hold selected
C15_RefreshKeepsSelection ==
    [][LoopTakes(I3) =>
          /\ UNCHANGED << selected, mode >>
          /\ command' = << >>
          /\ main_pc' = "render" =>
                /\ node_tree' \in SessionTrees
                /\ Len(node_ids') = node_count(node_tree')
                /\ IsPreOrder(node_tree', node_ids')]_vars

\* a refresh has brought a tree that no longer holds the selected container
\* (only the refresh can: the selection moves within node_ids)
C15_Witness ==
    /\ main_pc = "render"
    /\ selected \notin id_set(node_tree)
    /\ node_ids = << RootId >>

ArrowKeys == {"Up", "Down", "Left", "Right"}

\* the direction an arrow key names
KeyDirection(k) ==
    CASE k = "Up" -> "up" [] k = "Down" -> "down"
      [] k = "Left" -> "left" [] k = "Right" -> "right"

\* C16: in Move mode the step that takes an arrow key issues exactly one
\* command, 'move <direction>' on the container selected, with the key's
\* direction, and leaves selected, mode and the tree as they were; in mode
\* None the step that takes Up or Down issues no command and changes nothing
\* but selected
C16_MoveModeArrows ==
    [][\A k \in ArrowKeys :
          LoopTakes(Input(k)) =>
             IF mode.tag = "Move"
             THEN /\ command' = << [con_id |-> selected, verb |-> "move",
                                    arg |-> KeyDirection(k)] >>
                  /\ UNCHANGED << selected, mode, node_tree, node_ids >>
             ELSE k \in {"Up", "Down"} =>
                     /\ command' = << >>
                     /\ UNCHANGED << mode, node_tree, node_ids >>
                     /\ main_pc' = "render"]_vars

\* Left was taken in Move mode on a container that is not the root: one
\* 'move left' on the selected container went out
C16_Witness ==
    /\ mode.tag = "Move"
    /\ selected # node_tree.id
    /\ command = << [con_id |-> selected, verb |-> "move", arg |-> "left"] >>

\* the marks of the urgent and of the focused flag on a list item
UrgentMark(item) == item.style.bg = Some("LightMagenta")
FocusedMark(item) == item.style.bg = Some("LightGreen")

\* C17: after a render every row carries, all at once, the urgent mark when
\* its node is urgent, the focused mark when its node is focused and the
\* highlight when its node's id is selected
C17_MarksIndependent ==
    op = "render" =>
        LET paths == PathsFrom(node_tree, << >>)
        IN  \A i \in 1..Len(rows) :
               LET node == NodeAt(node_tree, paths[i])
               IN  /\ node.urgent => UrgentMark(rows[i])
                   /\ node.focused => FocusedMark(rows[i])
                   /\ node.id = selected => Highlighted(rows[i])

\* C19: whenever the mode is Move(id), id is the container selected
C19_MoveOriginIsSelected == mode.tag = "Move" => mode.id = selected

\* Move mode on a container that is not the root has outlived a refresh of
\* the tree
C19_Witness ==
    /\ mode.tag = "Move"
    /\ mode.id # node_tree.id
    /\ main_pc = "render"
    /\ node_ids # << >> /\ mode.id \notin id_set(node_tree)

\* C20: with the default configuration no state has the input thread
\* returned on the exit key, that key's event taken out of the channel, and
\* the loop still rendering or waiting for events
C20_NoDeafSession ==
    ~ (/\ input_pc = "exited"
       /\ Input(exit_key) \notin Range(chan)
       /\ MainRunning)

\* the input thread has returned on the exit key, the loop has taken the
\* key's event and has ended
C20_Witness ==
    /\ input_pc = "exited"
    /\ Input(exit_key) \notin Range(chan)
    /\ main_pc = "done"

\* C18: while the loop runs the tick thread has not ended, and whenever the
\* loop waits in next() the call returns in the end, whether or not a key
\* or a notification comes
C18_NextReturns ==
    /\ [](MainRunning => tick_pc # "done")
    /\ (main_pc = "next") ~> (main_pc # "next")

\* the loop waits in next() and the only event in the channel is a tick
C18_Witness ==
    /\ main_pc = "next"
    /\ chan = << Tick >>
    /\ tick_pc = "send"

====
